---- MODULE Spec2Model ----
(***************************************************************************)
(* Model of mute.cpp: a command-line program that walks the active audio   *)
(* render endpoints and mutes (or, with -unmute, unmutes) each of them.    *)
(*                                                                         *)
(* The program is sequential.  Every call into the host (COM / Core Audio) *)
(* is one action; the action also performs the local code that follows the *)
(* call up to the next call.  The host decides the outcome of each call.   *)
(* IPropertyStore::GetValue is modelled by its HRESULT: on success the     *)
(* value is taken to hold the friendly-name string, as the code assumes.   *)
(* Device names are represented by the device index.                       *)
(***************************************************************************)
EXTENDS Integers, Sequences, FiniteSets, TLC

\* ------------------------------------------------------------------ bounds
MaxDevices == 2
MaxArgs == 2
MaxGarbage == 1

\* --------------------------------------------------------------- constants
EXIT_SUCCESS == 0
EXIT_FAILURE == 1

NoArg == -1

VARIABLES
    argv,       \* argv[1..argc-1]: each argument a sequence of characters
    opts_,      \* struct Options { silent, unmute }
    mute,       \* host state: mute flag of every active render endpoint
    pc,         \* position of the process
    i,          \* loop index of Mute()
    epCount,    \* endpoint count returned by GetCount
    rc,         \* exit status of main
    out,        \* everything written to stdout / stderr by this process
    ops,        \* GetMute / SetMute calls issued by this process
    plat,       \* every host call of this process with its outcome
    startMute,  \* mute flags when the process was launched
    run,        \* number of the current process launch
    prev,       \* summary of the previous launch
    replay      \* host outcomes to repeat (twin launch), else << >>

vars == <<argv, opts_, mute, pc, i, epCount, rc, out, ops, plat, startMute,
          run, prev, replay>>

\* ---------------------------------------------------------------- strings
UpperCase == <<"A","B","C","D","E","F","G","H","I","J","K","L","M",
               "N","O","P","Q","R","S","T","U","V","W","X","Y","Z">>
LowerCase == <<"a","b","c","d","e","f","g","h","i","j","k","l","m",
               "n","o","p","q","r","s","t","u","v","w","x","y","z">>

tolower(c) ==
    IF \E k \in 1..26 : UpperCase[k] = c
    THEN LowerCase[CHOOSE k \in 1..26 : UpperCase[k] = c]
    ELSE c

\* strcmp(a, b) == 0
strcmp0(a, b) == a = b

\* _strcmpi(a, b) == 0
strcmpi0(a, b) ==
    /\ Len(a) = Len(b)
    /\ \A k \in 1..Len(a) : tolower(a[k]) = tolower(b[k])

StrHelp == <<"-","h","e","l","p">>
StrQuestion == <<"-","?">>
StrSilent == <<"-","s","i","l","e","n","t">>
StrUnmute == <<"-","u","n","m","u","t","e">>

\* --------------------------------------------------------------- arguments
ArgTokens == {
    StrSilent,
    <<"-","S","I","L","E","N","T">>,
    <<"-","U","n","M","u","t","e">>,
    StrHelp,
    <<"-","H","e","L","P">>,
    StrQuestion,
    <<"-","x">> }

SeqsUpTo(S, n) == UNION { [1..k -> S] : k \in 0..n }

ArgLists == SeqsUpTo(ArgTokens, MaxArgs)

\* The command lines that run the walker, one for each setting of the options
RunArgLists == { << >>, <<StrSilent>>, <<StrUnmute>>, <<StrSilent, StrUnmute>> }

\* ------------------------------------------------------------------ output
PrintError(o, m, a) ==
    IF o.silent THEN << >>
    ELSE << [s |-> "stdout", m |-> "! ", a |-> NoArg],
            [s |-> "stderr", m |-> m, a |-> a],
            [s |-> "stderr", m |-> "\\n", a |-> NoArg] >>

PrintOut(o, m, a) ==
    IF o.silent THEN << >>
    ELSE << [s |-> "stdout", m |-> m, a |-> a],
            [s |-> "stdout", m |-> "\\n", a |-> NoArg] >>

Newline == << [s |-> "stdout", m |-> "\\n", a |-> NoArg] >>

PrintUsage == << [s |-> "stdout", m |-> "usage", a |-> NoArg] >>

\* ------------------------------------------------------------ command line
DisplayUsage(args) ==
    /\ Len(args) + 1 = 2
    /\ (strcmpi0(args[1], StrHelp) \/ strcmp0(args[1], StrQuestion))

RECURSIVE ParseFrom(_, _, _)
ParseFrom(args, k, o) ==
    IF k > Len(args) THEN [ok |-> TRUE, opts |-> o]
    ELSE IF strcmpi0(args[k], StrSilent)
         THEN ParseFrom(args, k + 1, [o EXCEPT !.silent = TRUE])
    ELSE IF strcmpi0(args[k], StrUnmute)
         THEN ParseFrom(args, k + 1, [o EXCEPT !.unmute = TRUE])
    ELSE [ok |-> FALSE, opts |-> o]

\* Variant: the -silent branch falls through into the -unmute branch.
ParseCommandLineFallThrough(args, o) ==
    LET p == ParseFrom(args, 1, o) IN
    [p EXCEPT !.opts = [silent |-> p.opts.silent,
                        unmute |-> p.opts.unmute \/ p.opts.silent]]

ParseCommandLine(args, o) == ParseFrom(args, 1, o)

\* -------------------------------------------------------------------- host
Devices == DOMAIN mute

\* Outcome of the next host call: free, unless this launch repeats the
\* outcomes of the previous one and issues the same call at the same place.
Outcomes(call, dev) ==
    LET k == Len(plat) + 1 IN
    IF k <= Len(replay) /\ replay[k].call = call /\ replay[k].dev = dev
    THEN {replay[k].ok}
    ELSE BOOLEAN

Called(call, dev, ok) == Append(plat, [call |-> call, dev |-> dev, ok |-> ok])

\* ------------------------------------------------------------ MuteEndpoint
\* Variant: SetMute(opts_.unmute), the negation forgotten.
TargetInverted(o) == o.unmute

\* Variant: SetMute(TRUE) whatever the options.
TargetAlwaysMute(o) == TRUE

Target(o) == ~o.unmute

\* Variant: the early returns of lines 125-131 are missing.
AlreadyAtTargetNever(o, isMuted) == FALSE

AlreadyAtTarget(o, isMuted) ==
    \/ (o.unmute /\ ~isMuted)
    \/ (~o.unmute /\ isMuted)

\* Variant: no return after a failed GetMute; isMuted keeps its initial FALSE.
GetMuteDecisionNoFailCheck(ok, isMuted, o) ==
    IF AlreadyAtTarget(o, isMuted) THEN "already" ELSE "set"

\* What MuteEndpoint does after GetMute returned.
GetMuteDecision(ok, isMuted, o) ==
    IF ~ok THEN "failed"
    ELSE IF AlreadyAtTarget(o, isMuted) THEN "already"
    ELSE "set"

\* ------------------------------------------------------------------- loop
\* for (UINT i = 0; i < epCount; ++i): where control goes after iteration idx
LoopNext(idx, cnt) ==
    IF idx + 1 < cnt THEN [pc |-> "Item", i |-> idx + 1]
    ELSE [pc |-> "Shutdown", i |-> idx + 1]

\* Variant: `break` instead of `continue`.
ContinueBreak(idx, cnt) == [pc |-> "Shutdown", i |-> idx + 1]

\* Variant: the failure of a step is reported but the device is not skipped.
ContinueFallThrough(idx, cnt) == [pc |-> "GetMute", i |-> idx]

\* `continue` after a failed per-device step
Continue(idx, cnt) == LoopNext(idx, cnt)

\* Variant: rc = EXIT_SUCCESS whatever Mute() returned.
ExitCodeAlwaysSuccess(muteResult) == EXIT_SUCCESS

ExitCode(muteResult) == IF muteResult THEN EXIT_SUCCESS ELSE EXIT_FAILURE

\* ---------------------------------------------------------------- history
\* The loop of Mute() was entered: the three calls before it succeeded.
Walked(p) ==
    \E k \in 1..Len(p) : p[k].call = "GetCount" /\ p[k].ok

\* Every per-device step issued for device d succeeded.
DevOK(p, d) ==
    /\ \E k \in 1..Len(p) : p[k].call = "Item" /\ p[k].dev = d
    /\ \A k \in 1..Len(p) : p[k].dev = d => p[k].ok

NoPrev == [run |-> 0, argv |-> << >>, opts |-> [silent |-> FALSE, unmute |-> FALSE],
           startMute |-> << >>, endMute |-> << >>, okDevs |-> {},
           rc |-> EXIT_FAILURE, walked |-> FALSE, ops |-> << >>, plat |-> << >>]

\* What is kept of a finished launch.
Summary == [run |-> run, argv |-> << >>, opts |-> opts_,
            startMute |-> startMute, endMute |-> mute,
            okDevs |-> {d \in Devices : DevOK(plat, d)},
            rc |-> rc, walked |-> Walked(plat), ops |-> << >>, plat |-> << >>]

FullRecord == [Summary EXCEPT !.argv = argv, !.ops = ops, !.plat = plat]

HasSilent(args) == \E k \in 1..Len(args) : strcmpi0(args[k], StrSilent)

IsSilentArg(a) == strcmpi0(a, StrSilent)

NotSilentArg(a) == ~IsSilentArg(a)

\* The same command line with -silent added, or with every -silent removed.
ToggleSilent(args) ==
    IF HasSilent(args) THEN SelectSeq(args, NotSilentArg)
    ELSE Append(args, StrSilent)

\* ------------------------------------------------------------------ launch
MuteStates == UNION { [0..(n - 1) -> BOOLEAN] : n \in 0..MaxDevices }

Launch(args, m) ==
    /\ argv = args
    /\ opts_ = [silent |-> FALSE, unmute |-> FALSE]
    /\ mute = m
    /\ pc = "Init"
    /\ i = 0
    /\ epCount = 0
    /\ rc = EXIT_FAILURE
    /\ out = << >>
    /\ ops = << >>
    /\ plat = << >>
    /\ startMute = m

InitWith(lists) ==
    /\ \E args \in lists, m \in MuteStates : Launch(args, m)
    /\ run = 1
    /\ prev = NoPrev
    /\ replay = << >>

Init == InitWith(ArgLists)

InitRuns == InitWith(RunArgLists)

\* -------------------------------------------------------------------- main
\* Init(): CoInitializeEx
CoInitialize ==
    /\ pc = "Init"
    /\ \E ok \in Outcomes("CoInitializeEx", NoArg) :
        /\ plat' = Called("CoInitializeEx", NoArg, ok)
        /\ IF ok
           THEN /\ pc' = "Parse"
                /\ out' = out
           ELSE /\ pc' = "Done"
                /\ out' = out \o PrintError(opts_, "Failed to initialize COM library", NoArg)
    /\ UNCHANGED <<argv, opts_, mute, i, epCount, rc, ops, startMute, run, prev, replay>>

\* DisplayUsage(argc, argv) || !ParseCommandLine(argc, argv)
ParseArgs ==
    /\ pc = "Parse"
    /\ IF DisplayUsage(argv)
       THEN /\ opts_' = opts_
            /\ out' = out \o PrintUsage
            /\ pc' = "Shutdown"
       ELSE LET p == ParseCommandLine(argv, opts_) IN
            /\ opts_' = p.opts
            /\ IF p.ok
               THEN /\ out' = out
                    /\ pc' = "CreateInstance"
               ELSE /\ out' = out \o PrintUsage
                    /\ pc' = "Shutdown"
    /\ UNCHANGED <<argv, mute, i, epCount, rc, ops, plat, startMute, run, prev, replay>>

\* A failed call of Mute() before the loop: PrintError, return false
FatalStep(here, call, next, msg) ==
    /\ pc = here
    /\ \E ok \in Outcomes(call, NoArg) :
        /\ plat' = Called(call, NoArg, ok)
        /\ IF ok
           THEN /\ pc' = next
                /\ out' = out
                /\ rc' = rc
           ELSE /\ pc' = "Shutdown"
                /\ out' = out \o PrintError(opts_, msg, NoArg)
                /\ rc' = ExitCode(FALSE)
    /\ UNCHANGED <<argv, opts_, mute, i, ops, startMute, run, prev, replay>>

CreateInstance ==
    /\ FatalStep("CreateInstance", "CreateInstance", "EnumAudioEndpoints",
                 "Failed to create instance of MMDeviceEnumerator")
    /\ UNCHANGED epCount

EnumAudioEndpoints ==
    /\ FatalStep("EnumAudioEndpoints", "EnumAudioEndpoints", "GetCount",
                 "Failed to enumerate all audio endpoints")
    /\ UNCHANGED epCount

GetCount ==
    /\ pc = "GetCount"
    /\ \E ok \in Outcomes("GetCount", NoArg) :
        /\ plat' = Called("GetCount", NoArg, ok)
        /\ IF ok
           THEN LET n == Cardinality(Devices) IN
                /\ epCount' = n
                /\ out' = out
                /\ IF 0 < n
                   THEN pc' = "Item" /\ rc' = rc
                   ELSE pc' = "Shutdown" /\ rc' = ExitCode(TRUE)
           ELSE /\ epCount' = epCount
                /\ pc' = "Shutdown"
                /\ out' = out \o PrintError(opts_, "Failed to get endpoint count", NoArg)
                /\ rc' = ExitCode(FALSE)
    /\ i' = 0
    /\ UNCHANGED <<argv, opts_, mute, ops, startMute, run, prev, replay>>

\* Leaving iteration i of the loop, after writing `text`
LeaveIteration(nx, text) ==
    /\ pc' = nx.pc
    /\ i' = nx.i
    /\ rc' = IF nx.pc = "Shutdown" THEN ExitCode(TRUE) ELSE rc
    /\ out' = out \o text

\* A per-device call before MuteEndpoint: on failure PrintError and continue
DeviceStep(here, call, next, msg, msgArgs, okText) ==
    /\ pc = here
    /\ \E ok \in Outcomes(call, i) :
        /\ plat' = Called(call, i, ok)
        /\ IF ok
           THEN /\ pc' = next
                /\ out' = out \o okText
                /\ UNCHANGED <<i, rc>>
           ELSE \E a \in msgArgs :
                LeaveIteration(Continue(i, epCount), PrintError(opts_, msg, a))
    /\ UNCHANGED <<argv, opts_, mute, epCount, ops, startMute, run, prev, replay>>

Item ==
    DeviceStep("Item", "Item", "OpenPropertyStore",
               "Failed to get audio endpoint #%d", {i}, << >>)

OpenPropertyStore ==
    DeviceStep("OpenPropertyStore", "OpenPropertyStore", "GetValue",
               "Failed to open property store for audio endpoint #%d", {i}, << >>)

\* The format of the failure message has a %d and no argument is passed:
\* the number printed is indeterminate.  PrintError returns before reading
\* it when silent.
GetValue ==
    DeviceStep("GetValue", "GetValue", "ActivateSessionManager",
               "Failed to get device name for audio endpoint #%d",
               IF opts_.silent THEN {NoArg} ELSE 0..MaxGarbage,
               PrintOut(opts_, "Found audio endpoint \"%ls\"", i))

ActivateSessionManager ==
    DeviceStep("ActivateSessionManager", "Activate(IAudioSessionManager2)",
               "GetAudioSessionControl",
               "Failed to retrieve audio session manager for \"%ls\"", {i}, << >>)

GetAudioSessionControl ==
    DeviceStep("GetAudioSessionControl", "GetAudioSessionControl",
               "ActivateEndpointVolume",
               "Failed to retrieve audio session manager for \"%ls\"", {i}, << >>)

ActivateEndpointVolume ==
    DeviceStep("ActivateEndpointVolume", "Activate(IAudioEndpointVolume)",
               "GetMute",
               "Failed to active endpoint volume for device \"%ls\"", {i}, << >>)

\* MuteEndpoint up to the decision taken on the flag read; when MuteEndpoint
\* returns, Mute() writes a newline to stdout and the iteration ends.
GetMute ==
    /\ pc = "GetMute"
    /\ \E ok \in Outcomes("GetMute", i) :
        LET isMuted == IF ok THEN mute[i] ELSE FALSE
            d == GetMuteDecision(ok, isMuted, opts_)
        IN
        /\ plat' = Called("GetMute", i, ok)
        /\ ops' = Append(ops, [dev |-> i, op |-> "get", val |-> isMuted, ok |-> ok])
        /\ IF d = "failed"
           THEN LeaveIteration(LoopNext(i, epCount),
                    PrintError(opts_, "Failed to get mute status for device \"%ls\"", i)
                    \o Newline)
           ELSE IF d = "already"
           THEN LeaveIteration(LoopNext(i, epCount),
                    PrintOut(opts_, IF opts_.unmute THEN "> %ls is already unmuted."
                                 ELSE "> %ls is already muted.", i)
                    \o Newline)
           ELSE /\ pc' = "SetMute"
                /\ UNCHANGED <<i, rc, out>>
    /\ UNCHANGED <<argv, opts_, mute, epCount, startMute, run, prev, replay>>

\* The rest of MuteEndpoint: SetMute(!opts_.unmute) and its report
SetMute ==
    /\ pc = "SetMute"
    /\ \E ok \in Outcomes("SetMute", i) :
        LET v == Target(opts_) IN
        /\ plat' = Called("SetMute", i, ok)
        /\ ops' = Append(ops, [dev |-> i, op |-> "set", val |-> v, ok |-> ok])
        /\ mute' = IF ok THEN [mute EXCEPT ![i] = v] ELSE mute
        /\ LeaveIteration(LoopNext(i, epCount),
               (IF ok
                THEN PrintOut(opts_, IF opts_.unmute THEN "> %ls is now unmuted"
                                  ELSE "> %ls is now muted", i)
                ELSE PrintError(opts_, "Failed to set mute status for device \"%ls\"", i))
               \o Newline)
    /\ UNCHANGED <<argv, opts_, epCount, startMute, run, prev, replay>>

\* Shutdown(): CoUninitialize; main returns rc
Shutdown ==
    /\ pc = "Shutdown"
    /\ pc' = "Done"
    /\ UNCHANGED <<argv, opts_, mute, i, epCount, rc, out, ops, plat, startMute,
                   run, prev, replay>>

Next ==
    \/ CoInitialize
    \/ ParseArgs
    \/ CreateInstance
    \/ EnumAudioEndpoints
    \/ GetCount
    \/ Item
    \/ OpenPropertyStore
    \/ GetValue
    \/ ActivateSessionManager
    \/ GetAudioSessionControl
    \/ ActivateEndpointVolume
    \/ GetMute
    \/ SetMute
    \/ Shutdown

Spec == Init /\ [][Next]_vars

\* ------------------------------------------------------- repeated launches
\* The program is started a second time right after it exited: nothing else
\* touches the devices in between.
Relaunch ==
    /\ pc = "Done"
    /\ run = 1
    /\ \E args \in RunArgLists : argv' = args
    /\ mute' = mute
    /\ startMute' = mute
    /\ opts_' = [silent |-> FALSE, unmute |-> FALSE]
    /\ pc' = "Init"
    /\ i' = 0
    /\ epCount' = 0
    /\ rc' = EXIT_FAILURE
    /\ out' = << >>
    /\ ops' = << >>
    /\ plat' = << >>
    /\ run' = run + 1
    /\ prev' = Summary
    /\ replay' = << >>

NextRuns == Next \/ Relaunch

SpecRuns == InitRuns /\ [][NextRuns]_vars

\* The program is started a second time from the device states of the first
\* launch, with -silent toggled on the command line, and the host answers
\* every call as it did the first time.
RelaunchTwin ==
    /\ pc = "Done"
    /\ run = 1
    /\ argv' = ToggleSilent(argv)
    /\ mute' = startMute
    /\ startMute' = startMute
    /\ opts_' = [silent |-> FALSE, unmute |-> FALSE]
    /\ pc' = "Init"
    /\ i' = 0
    /\ epCount' = 0
    /\ rc' = EXIT_FAILURE
    /\ out' = << >>
    /\ ops' = << >>
    /\ plat' = << >>
    /\ run' = 2
    /\ prev' = FullRecord
    /\ replay' = plat

NextTwin == Next \/ RelaunchTwin

SpecTwin == InitRuns /\ [][NextTwin]_vars

\* ================================================================== claims
Done == pc = "Done"

NDevices == Cardinality(Devices)

GetsOf(d) == {k \in 1..Len(ops) : ops[k].dev = d /\ ops[k].op = "get"}

SetsOf(d) == {k \in 1..Len(ops) : ops[k].dev = d /\ ops[k].op = "set"}

FailedCall(p, calls, d) ==
    \E k \in 1..Len(p) : p[k].call \in calls /\ p[k].dev = d /\ ~p[k].ok

FatalCalls == {"CoInitializeEx", "CreateInstance", "EnumAudioEndpoints", "GetCount"}

PreSteps == {"Item", "OpenPropertyStore", "GetValue",
             "Activate(IAudioSessionManager2)", "GetAudioSessionControl",
             "Activate(IAudioEndpointVolume)"}

SkipSteps == PreSteps \cup {"GetMute"}

OkCalls(d) == {plat[j].call : j \in {k \in 1..Len(plat) : plat[k].dev = d /\ plat[k].ok}}

IsItemCall(c) == c.call = "Item"

HasUnmute(args) == \E k \in 1..Len(args) : strcmpi0(args[k], StrUnmute)

\* C1: a write is issued for a device only after its flag was read as
\* different from !unmute, the value written is always !unmute, and after a
\* run whose enumeration succeeded every device all of whose steps succeeded
\* has its mute flag equal to !unmute.
C1_SetToTarget ==
    /\ \A k \in 1..Len(ops) :
        ops[k].op = "set" =>
            /\ ops[k].val = ~opts_.unmute
            /\ \E j \in 1..(k - 1) :
                /\ ops[j].dev = ops[k].dev
                /\ ops[j].op = "get"
                /\ ops[j].ok
                /\ ops[j].val # ~opts_.unmute
    /\ (Done /\ Walked(plat)) =>
        \A d \in Devices : DevOK(plat, d) => mute[d] = ~opts_.unmute

\* C1 witness: a run with -unmute ends having unmuted a device that was muted.
C1_Witness ==
    /\ Done
    /\ opts_.unmute
    /\ \E d \in Devices : DevOK(plat, d) /\ startMute[d] /\ ~mute[d] /\ SetsOf(d) # {}

\* C2: once the endpoint count was obtained, whatever per-device steps fail,
\* every device 0..N-1 has its iteration started, in enumeration order, and
\* the process exits with status 0.
C2_BestEffort ==
    (Done /\ Walked(plat)) =>
        LET items == SelectSeq(plat, IsItemCall) IN
        /\ rc = EXIT_SUCCESS
        /\ Len(items) = NDevices
        /\ \A k \in 1..Len(items) : items[k].dev = k - 1

\* C2 witness: a run over at least two devices in which every device failed,
\* at two different steps.
C2_Witness ==
    /\ Done
    /\ Walked(plat)
    /\ NDevices >= 2
    /\ \A d \in Devices : ~DevOK(plat, d)
    /\ FailedCall(plat, {"Item"}, 0)
    /\ FailedCall(plat, {"SetMute"}, 1)

\* C3: when -silent is among the arguments, nothing at all is written to
\* stdout or stderr.
C3_Silence == HasSilent(argv) => out = << >>

\* C4 as stated: in the second of two runs with the same flags, a device
\* whose flag was at the target after the first run gets no write, and the
\* only status message printed for it is the "already (un)muted" message.
C4_OnlyAlreadyMessage ==
    (run = 2 /\ pc \notin {"Init", "Parse"} /\ prev.walked /\ prev.opts = opts_) =>
        \A d \in Devices :
            prev.endMute[d] = ~prev.opts.unmute =>
                /\ SetsOf(d) = {}
                /\ \A k \in 1..Len(out) :
                    (out[k].s = "stdout" /\ out[k].a = d) =>
                        out[k].m = IF opts_.unmute THEN "> %ls is already unmuted."
                                   ELSE "> %ls is already muted."

\* C4 amended: in the second of two runs with the same flags, a device whose
\* flag was at the target after the first run gets no write, and the only
\* status messages printed for it are the "Found audio endpoint" line and
\* the "already (un)muted" message.
C4_Idempotent ==
    (run = 2 /\ pc \notin {"Init", "Parse"} /\ prev.walked /\ prev.opts = opts_) =>
        \A d \in Devices :
            prev.endMute[d] = ~prev.opts.unmute =>
                /\ SetsOf(d) = {}
                /\ \A k \in 1..Len(out) :
                    (out[k].s = "stdout" /\ out[k].a = d) =>
                        out[k].m \in {"Found audio endpoint \"%ls\"",
                                      IF opts_.unmute THEN "> %ls is already unmuted."
                                      ELSE "> %ls is already muted."}

\* C4 witness: the second run reports "already muted" for a device that the
\* first run muted.
C4_Witness ==
    /\ run = 2
    /\ Done
    /\ prev.walked
    /\ prev.opts = opts_
    /\ ~opts_.silent
    /\ \E d \in Devices :
        /\ ~prev.startMute[d]
        /\ prev.endMute[d]
        /\ \E k \in 1..Len(out) : out[k].a = d /\ out[k].m = "> %ls is already muted."

\* The two runs of the inversion property: no flags, then -unmute alone.
DefaultThenUnmute ==
    /\ run = 2
    /\ Done
    /\ prev.walked
    /\ prev.opts = [silent |-> FALSE, unmute |-> FALSE]
    /\ argv = <<StrUnmute>>

\* C5 as stated: after a run with default flags and a run with -unmute,
\* every device successfully processed has the mute flag it had before the
\* first run.
C5_BackToOriginal ==
    DefaultThenUnmute =>
        \A d \in Devices :
            (d \in prev.okDevs /\ DevOK(plat, d)) => mute[d] = prev.startMute[d]

\* C5 amended: after a run with default flags and a run with -unmute, every
\* device successfully processed is unmuted, which is the flag it had before
\* the first run exactly when it was unmuted then.
C5_Inversion ==
    DefaultThenUnmute =>
        \A d \in Devices :
            (d \in prev.okDevs /\ DevOK(plat, d)) =>
                /\ ~mute[d]
                /\ (mute[d] = prev.startMute[d]) <=> ~prev.startMute[d]

\* C5 witness: a device that was unmuted, was muted by the first run and is
\* unmuted again by the second.
C5_Witness ==
    /\ DefaultThenUnmute
    /\ \E d \in Devices :
        /\ d \in prev.okDevs
        /\ DevOK(plat, d)
        /\ ~prev.startMute[d]
        /\ prev.endMute[d]
        /\ ~mute[d]

\* C6: if COM initialization, the creation of the enumerator, the endpoint
\* enumeration or the count query failed, no get or set is issued, every
\* mute flag is as it was at launch, and the exit status is 1.
C6_FatalAborts ==
    FailedCall(plat, FatalCalls, NoArg) =>
        /\ ops = << >>
        /\ mute = startMute
        /\ ~(\E k \in 1..Len(plat) : plat[k].dev # NoArg)
        /\ Done => rc = EXIT_FAILURE

\* C6 witness: the count query failed in a run that would have muted a device.
C6_Witness ==
    /\ Done
    /\ FailedCall(plat, {"GetCount"}, NoArg)
    /\ ~HasUnmute(argv)
    /\ \E d \in Devices : ~mute[d]

HelpRequest(args) ==
    Len(args) = 1 /\ (strcmpi0(args[1], StrHelp) \/ args[1] = StrQuestion)

BadArgument(args) ==
    \E k \in 1..Len(args) :
        ~strcmpi0(args[k], StrSilent) /\ ~strcmpi0(args[k], StrUnmute)

\* C7: with -help or -? as the sole argument, or with any argument other
\* than -silent / -unmute, the usage text is printed, nothing is enumerated,
\* no get or set is issued and the exit status is 1; with any other command
\* line the walker is run with silent and unmute set exactly when the
\* respective flag appears.
C7_UsageOrWalk ==
    Done =>
        IF HelpRequest(argv) \/ BadArgument(argv)
        THEN /\ \E k \in 1..Len(out) : out[k].m = "usage"
             /\ ~(\E k \in 1..Len(plat) : plat[k].call = "EnumAudioEndpoints")
             /\ ops = << >>
             /\ rc = EXIT_FAILURE
        ELSE /\ \E k \in 1..Len(plat) : plat[k].call = "CreateInstance"
             /\ opts_.silent = HasSilent(argv)
             /\ opts_.unmute = HasUnmute(argv)

\* C8: per run and device at most one get and at most one set; a set comes
\* right after a successful get on the same device; devices are handled one
\* after another in enumeration order.
C8_OneGetOneSet ==
    /\ \A d \in Devices : Cardinality(GetsOf(d)) <= 1 /\ Cardinality(SetsOf(d)) <= 1
    /\ \A k \in 1..Len(ops) :
        /\ ops[k].dev \in Devices
        /\ ops[k].op = "set" =>
            /\ k > 1
            /\ ops[k - 1].dev = ops[k].dev
            /\ ops[k - 1].op = "get"
            /\ ops[k - 1].ok
    /\ \A k \in 1..(Len(ops) - 1) : ops[k].dev <= ops[k + 1].dev
    /\ \A k \in 1..(Len(plat) - 1) : plat[k].dev <= plat[k + 1].dev

\* C8 witness: two devices were read and written, and a write failed.
C8_Witness ==
    /\ Done
    /\ Len(ops) = 4
    /\ SetsOf(0) # {}
    /\ SetsOf(1) # {}
    /\ \E k \in 1..Len(ops) : ops[k].op = "set" /\ ~ops[k].ok

\* C9: a run that differs from another only in -silent, from the same
\* device states and with the same host outcomes, issues the same get/set
\* operations with the same values and ends with the same mute flags and
\* the same exit status.
C9_SilentNoEffect ==
    (run = 2 /\ Done) =>
        /\ ops = prev.ops
        /\ mute = prev.endMute
        /\ rc = prev.rc

\* C9 witness: a silent and a non-silent run that both wrote a flag and both
\* met a failing device.
C9_Witness ==
    /\ run = 2
    /\ Done
    /\ HasSilent(argv) # HasSilent(prev.argv)
    /\ mute # startMute
    /\ \E d \in Devices : ~DevOK(plat, d)

\* C10: a flag is read only after the six earlier steps of the iteration
\* succeeded and written only after a successful read; a device skipped at
\* any of these steps or at the read keeps its flag; at the end of the loop
\* a device was not read only because one of the six steps failed, and a
\* device read as differing from the target was written.
C10_SkippedUntouched ==
    /\ \A k \in 1..Len(ops) :
        /\ ops[k].op = "get" => PreSteps \subseteq OkCalls(ops[k].dev)
        /\ ops[k].op = "set" =>
            \E j \in 1..(k - 1) :
                ops[j].dev = ops[k].dev /\ ops[j].op = "get" /\ ops[j].ok
    /\ \A d \in Devices :
        FailedCall(plat, SkipSteps, d) =>
            /\ mute[d] = startMute[d]
            /\ SetsOf(d) = {}
    /\ (Done /\ Walked(plat)) =>
        \A d \in Devices :
            /\ GetsOf(d) = {} => FailedCall(plat, PreSteps, d)
            /\ (\E k \in GetsOf(d) : ops[k].ok /\ ops[k].val # ~opts_.unmute)
                   => SetsOf(d) # {}

\* C10 witness: one device skipped because its endpoint volume could not be
\* activated, another because its flag could not be read, both unmuted in a
\* muting run.
C10_Witness ==
    /\ Done
    /\ ~HasUnmute(argv)
    /\ FailedCall(plat, {"Activate(IAudioEndpointVolume)"}, 0)
    /\ FailedCall(plat, {"GetMute"}, 1)
    /\ ~mute[0]
    /\ ~mute[1]

====
